---- MODULE Spec2Model ----
(***************************************************************************)
(* Model of the AI flaw report pipeline of main.py, models.py and kb.py:   *)
(* a raw payload is validated (RawAIFlawReport), resolved against the      *)
(* knowledge base (process_raw_report) and serialized to a JSON-LD         *)
(* document (serialize_to_jsonld).  Python dicts are functions whose       *)
(* DOMAIN is the set of keys that are present; every scalar JSON value of  *)
(* the model is a string.                                                  *)
(***************************************************************************)
EXTENDS Integers, Sequences, FiniteSets, TLC

\* ------------------------------------------------------------------ bounds
\* Longest ai_systems list of a payload.
MaxKnown == 2
\* Longest ai_systems_unknown list of a payload.
MaxUnknown == 2
\* Most entries of the "@graph" of ai-systems.jsonld.
MaxSystems == 2

\* ------------------------------------------------------- program constants
\* Field(..., min_length=10) of flaw_description.
MinFlawDescription == 10
\* Field(..., min_length=1) of UnknownAISystem.description.
MinUnknownDescription == 1
\* hash(...) % 100000
ReportIdModulus == 100000

\* -------------------------------------------------------- python helpers
\* None, and a value that is not None.
NoneVal == [some |-> FALSE]
Some(v) == [some |-> TRUE, val |-> v]

\* The empty dict {}.
EmptyDict == << >>

\* not d, for a dict d.
IsEmptyDict(d) == DOMAIN d = {}

\* dict.get(k, default)
Get(d, k, default) == IF k \in DOMAIN d THEN d[k] ELSE default

\* Every sequence over S of length at most n.
SeqsUpTo(S, n) == UNION {[1..k -> S] : k \in 0..n}

Min(S) == CHOOSE x \in S : \A y \in S : x <= y

\* A call that returned v, and a call that raised.
Returned(v) == [ok |-> TRUE, val |-> v]
Raised(e) == [ok |-> FALSE, error |-> e]

\* ------------------------------------------------------------------ kb.py
\* The first character of every field name the model's entries use.
FirstChar ==
    ("@id" :> "@") @@ ("@type" :> "@") @@ ("name" :> "n") @@ ("version" :> "v")
    @@ ("publisher" :> "p") @@ ("_aifr_internal" :> "_") @@ ("_note" :> "_")

\* k.startswith(prefix), for a one-character prefix.
startswith(k, prefix) == FirstChar[k] = prefix

\* A cleaning that knows one internal field by name.
clean_internal_fields_by_name(data) ==
    [k \in {f \in DOMAIN data : f # "_aifr_internal"} |-> data[k]]

\* {k: v for k, v in data.items() if not k.startswith("_")}
clean_internal_fields(data) ==
    [k \in {f \in DOMAIN data : ~startswith(f, "_")} |-> data[k]]

\* system.get("_aifr_internal", {}).get("slug") == slug
InternalSlugIs(entry, slug) ==
    LET internal == Get(entry, "_aifr_internal", EmptyDict)
    IN  "slug" \in DOMAIN internal /\ internal.slug = slug

\* The first entry of the systems graph whose internal slug is slug, or None.
find_system_by_slug(kb, slug) ==
    LET graph == kb.systems
        hits == {i \in 1..Len(graph) : InternalSlugIs(graph[i], slug)}
    IN  IF hits = {} THEN NoneVal ELSE Some(graph[Min(hits)])

\* The first entry of the organizations graph whose "@id" is org_id, or None.
find_organization_by_id(kb, org_id) ==
    LET graph == kb.organizations
        hits == {i \in 1..Len(graph) :
                    "@id" \in DOMAIN graph[i] /\ graph[i]["@id"] = org_id}
    IN  IF hits = {} THEN NoneVal ELSE Some(graph[Min(hits)])

\* system.get("publisher", {}).get("@id"), None when there is none.
PublisherId(system) ==
    LET publisher == Get(system, "publisher", EmptyDict)
    IN  IF "@id" \in DOMAIN publisher THEN Some(publisher["@id"]) ELSE NoneVal

\* The clean copy of the entry with the publisher embedded, or None.
get_system_jsonld(kb, slug) ==
    LET found == find_system_by_slug(kb, slug)
    IN  IF ~found.some THEN NoneVal
        ELSE LET system == found.val
                 jsonld_system == clean_internal_fields(system)
                 publisher_id == PublisherId(system)
             IN  IF publisher_id.some /\ publisher_id.val # ""
                 THEN LET org_data == find_organization_by_id(kb, publisher_id.val)
                      IN  IF org_data.some
                          THEN Some(("publisher" :> clean_internal_fields(org_data.val))
                                    @@ jsonld_system)
                          ELSE Some(jsonld_system)
                 ELSE Some(jsonld_system)

\* -------------------------------------------------------------- models.py
\* {'Low', 'Medium', 'High', 'Critical'}
valid_severities == {"Low", "Medium", "High", "Critical"}

\* validate_severity: TRUE when it raises.
validate_severity(v) == v \notin valid_severities

\* RawAIFlawReport.validate_at_least_one_system on a list field whose value is
\* v, with the fields validated before it in values: TRUE when it raises.
raw_validate_at_least_one_system(v, values) ==
    LET ai_systems == IF "ai_systems" \in DOMAIN values
                      THEN values.ai_systems ELSE v
        ai_systems_unknown == IF "ai_systems_unknown" \in DOMAIN values
                              THEN values.ai_systems_unknown ELSE v
    IN  ai_systems = << >> /\ ai_systems_unknown = << >>

\* UnknownAISystem(**item): TRUE when the description is too short.
UnknownItemFails(item) == Len(item.description) < MinUnknownDescription

\* One field of RawAIFlawReport validated: st holds the values validated so
\* far, the errors collected and the checks executed, in order.
\* ai_systems: the default [] is taken without running the validator.
ValidateKnownField(payload, st) ==
    IF "ai_systems" \notin DOMAIN payload
    THEN [st EXCEPT !.values = [ai_systems |-> << >>] @@ @]
    ELSE LET v == payload.ai_systems
             fails == raw_validate_at_least_one_system(v, st.values)
         IN  [values |-> IF fails THEN st.values
                         ELSE [ai_systems |-> v] @@ st.values,
              errors |-> IF fails THEN Append(st.errors, "ai_systems") ELSE st.errors,
              checks |-> Append(st.checks, "at_least_one_system")]

\* ai_systems_unknown: the items are validated first, and the validator runs
\* only on a list whose items all passed.
ValidateUnknownField(payload, st) ==
    IF "ai_systems_unknown" \notin DOMAIN payload
    THEN [st EXCEPT !.values = [ai_systems_unknown |-> << >>] @@ @]
    ELSE LET v == payload.ai_systems_unknown
             itemFails == \E i \in 1..Len(v) : UnknownItemFails(v[i])
             itemChecks == [i \in 1..Len(v) |-> "unknown_description_min_length"]
             fails == raw_validate_at_least_one_system(v, st.values)
         IN  IF itemFails
             THEN [values |-> st.values,
                   errors |-> Append(st.errors, "ai_systems_unknown"),
                   checks |-> st.checks \o itemChecks]
             ELSE [values |-> IF fails THEN st.values
                              ELSE [ai_systems_unknown |-> v] @@ st.values,
                   errors |-> IF fails THEN Append(st.errors, "ai_systems_unknown")
                              ELSE st.errors,
                   checks |-> Append(st.checks \o itemChecks, "at_least_one_system")]

\* flaw_description: Field(..., min_length=10)
ValidateFlawDescriptionField(payload, st) ==
    LET v == payload.flaw_description
        fails == Len(v) < MinFlawDescription
    IN  [values |-> IF fails THEN st.values ELSE [flaw_description |-> v] @@ st.values,
         errors |-> IF fails THEN Append(st.errors, "flaw_description") ELSE st.errors,
         checks |-> Append(st.checks, "flaw_description_min_length")]

\* flaw_severity: validate_severity
ValidateSeverityField(payload, st) ==
    LET v == payload.flaw_severity
        fails == validate_severity(v)
    IN  [values |-> IF fails THEN st.values ELSE [flaw_severity |-> v] @@ st.values,
         errors |-> IF fails THEN Append(st.errors, "flaw_severity") ELSE st.errors,
         checks |-> Append(st.checks, "severity_enum")]

\* RawAIFlawReport(**payload): the fields are validated in the order the class
\* declares them; every error is collected, and any error rejects the payload.
RawAIFlawReport(payload) ==
    LET s0 == [values |-> EmptyDict, errors |-> << >>, checks |-> << >>]
        s1 == ValidateKnownField(payload, s0)
        s2 == ValidateUnknownField(payload, s1)
        s3 == ValidateFlawDescriptionField(payload, s2)
        s4 == ValidateSeverityField(payload, s3)
    IN  [ok |-> s4.errors = << >>,
         val |-> s4.values,
         errors |-> s4.errors,
         checks |-> s4.checks]

\* ProcessedAIFlawReport.validate_at_least_one_system: TRUE when it raises.
processed_validate_at_least_one_system(v, values) ==
    LET ai_systems == IF "ai_systems" \in DOMAIN values THEN values.ai_systems ELSE v
    IN  ai_systems = << >>

\* ---------------------------------------------------------------- main.py
\* raw_report.model_dump_json(): the values of the four fields in the order
\* the class declares them, each after its field name.
model_dump_json(raw_report) ==
    <<"ai_systems">> \o raw_report.ai_systems
    \o <<"ai_systems_unknown">>
    \o [i \in 1..Len(raw_report.ai_systems_unknown) |->
            raw_report.ai_systems_unknown[i].description]
    \o <<"flaw_description", raw_report.flaw_description,
         "flaw_severity", raw_report.flaw_severity>>

\* hash() of a str is keyed by a seed the interpreter draws as the process
\* starts: within a process it is a function of the text, and the values of one
\* process say nothing of the values of another.  A process's hashes so far
\* are a set of [text, value]; the value of a text not hashed before is any
\* hash value.  The 64-bit values are sampled by one negative and one
\* positive value.
MaxHash == 1
HashValues == {-MaxHash, MaxHash}

\* The values hash(text) may return in a process whose hashes so far are table.
hash(table, text) ==
    IF \E e \in table : e.text = text
    THEN {e.value : e \in {x \in table : x.text = text}}
    ELSE HashValues

\* f"{hash(...) % 100000}", from the value hash() returned.
report_id_of(hash_value) == ToString(hash_value % ReportIdModulus)

\* AISystem(...) of a resolved slug.
KnownSystem(system_data, slug) ==
    LET internal_data == Get(system_data, "_aifr_internal", EmptyDict)
    IN  [id |-> Get(system_data, "@id", ""),
         name |-> Get(system_data, "name", ""),
         version |-> Get(system_data, "version", ""),
         slug |-> Get(internal_data, "slug", slug),
         display_name |-> Get(internal_data, "displayName",
                              Get(system_data, "name", "")),
         description |-> NoneVal,
         system_type |-> "known"]

\* The loop over raw_report.ai_systems: a slug that is not found is skipped.
RECURSIVE ResolveKnown(_, _)
ResolveKnown(slugs, kb) ==
    IF slugs = << >> THEN << >>
    ELSE LET system_data == find_system_by_slug(kb, Head(slugs))
             rest == ResolveKnown(Tail(slugs), kb)
         IN  IF system_data.some /\ ~IsEmptyDict(system_data.val)
             THEN <<KnownSystem(system_data.val, Head(slugs))>> \o rest
             ELSE rest

\* An unknown system numbered by its index as enumerate() gives it.
UnknownSystemZeroBased(report_id, idx, unknown) ==
    [id |-> "https://aifr.org/reports/" \o report_id
            \o "/unknown-system-" \o ToString(idx),
     name |-> "Unknown System", version |-> "", slug |-> "",
     display_name |-> "Unknown System",
     description |-> Some(unknown.description),
     system_type |-> "unknown"]

\* AISystem(...) of the unknown system at index idx of enumerate().
UnknownSystem(report_id, idx, unknown) ==
    [id |-> "https://aifr.org/reports/" \o report_id
            \o "/unknown-system-" \o ToString(idx + 1),
     name |-> "Unknown System", version |-> "", slug |-> "",
     display_name |-> "Unknown System",
     description |-> Some(unknown.description),
     system_type |-> "unknown"]

\* The loop over enumerate(raw_report.ai_systems_unknown).
ResolveUnknown(unknowns, report_id) ==
    [i \in 1..Len(unknowns) |-> UnknownSystem(report_id, i - 1, unknowns[i])]

\* A processed report built without its validator.
ProcessedAIFlawReportUnvalidated(fields) == Returned(fields)

\* ProcessedAIFlawReport(**fields): ai_systems is validated after report_id
\* and created_at.
ProcessedAIFlawReport(fields) ==
    IF processed_validate_at_least_one_system(
           fields.ai_systems,
           [report_id |-> fields.report_id, created_at |-> fields.created_at])
    THEN Raised("ValidationError")
    ELSE Returned(fields)

\* process_raw_report(raw_report), with the knowledge-base files KnowledgeBase()
\* loads, the value hash() returns for the dump and the clock's reading.
process_raw_report(raw_report, kb, hash_value, now) ==
    LET known == ResolveKnown(raw_report.ai_systems, kb)
        report_id == report_id_of(hash_value)
        ai_systems == known \o ResolveUnknown(raw_report.ai_systems_unknown, report_id)
    IN  ProcessedAIFlawReport(
            [report_id |-> report_id,
             created_at |-> now,
             ai_systems |-> ai_systems,
             flaw_description |-> raw_report.flaw_description,
             flaw_severity |-> raw_report.flaw_severity])

\* ', '.join(names)
RECURSIVE join(_, _)
join(sep, names) ==
    IF names = << >> THEN ""
    ELSE IF Len(names) = 1 THEN names[1]
    ELSE names[1] \o sep \o join(sep, Tail(names))

\* The projection of an unknown system.
UnknownProjection(system) ==
    ("@type" :> "schema:SoftwareApplication") @@ ("@id" :> system.id)
    @@ [description |-> system.description.val]

\* A loop that leaves out a known system whose slug no longer resolves.
RECURSIVE SerializeSystemsSkipMissing(_, _, _, _)
SerializeSystemsSkipMissing(systems, kb, jsonld_systems, system_names) ==
    IF systems = << >>
    THEN Returned([jsonld_systems |-> jsonld_systems, system_names |-> system_names])
    ELSE LET system == Head(systems)
         IN  IF system.system_type = "unknown"
             THEN SerializeSystemsSkipMissing(Tail(systems), kb,
                      Append(jsonld_systems, UnknownProjection(system)),
                      Append(system_names, "Unknown System"))
             ELSE LET jsonld_system == get_system_jsonld(kb, system.slug)
                  IN  IF ~jsonld_system.some \/ IsEmptyDict(jsonld_system.val)
                      THEN SerializeSystemsSkipMissing(Tail(systems), kb,
                               jsonld_systems, system_names)
                      ELSE SerializeSystemsSkipMissing(Tail(systems), kb,
                               Append(jsonld_systems, jsonld_system.val),
                               Append(system_names, system.display_name))

\* The loop over processed_report.ai_systems, from the lists built so far: it
\* raises at the first known system whose slug get_system_jsonld does not
\* resolve to a non-empty dict.
RECURSIVE SerializeSystems(_, _, _, _)
SerializeSystems(systems, kb, jsonld_systems, system_names) ==
    IF systems = << >>
    THEN Returned([jsonld_systems |-> jsonld_systems, system_names |-> system_names])
    ELSE LET system == Head(systems)
         IN  IF system.system_type = "unknown"
             THEN SerializeSystems(Tail(systems), kb,
                      Append(jsonld_systems, UnknownProjection(system)),
                      Append(system_names, "Unknown System"))
             ELSE LET jsonld_system == get_system_jsonld(kb, system.slug)
                  IN  IF ~jsonld_system.some \/ IsEmptyDict(jsonld_system.val)
                      THEN Raised("ValueError")
                      ELSE SerializeSystems(Tail(systems), kb,
                               Append(jsonld_systems, jsonld_system.val),
                               Append(system_names, system.display_name))

\* serialize_to_jsonld(processed_report), with the knowledge-base files
\* KnowledgeBase() loads.
serialize_to_jsonld(processed_report, kb) ==
    LET lists == SerializeSystems(processed_report.ai_systems, kb, << >>, << >>)
    IN  IF ~lists.ok THEN lists
        ELSE Returned(
            ("@context" :> <<"https://schema.org/",
                             [aifr |-> "urn:aifr:vocab:",
                              aiSystem |-> "aifr:aiSystem",
                              severity |-> "aifr:severity"]>>)
            @@ ("@type" :> "aifr:AIFlawReport")
            @@ ("@id" :> "https://aifr.org/reports/" \o processed_report.report_id)
            @@ [name |-> "AI Flaw Report: " \o join(", ", lists.val.system_names),
                description |-> processed_report.flaw_description,
                aiSystem |-> lists.val.jsonld_systems,
                severity |-> processed_report.flaw_severity])

\* ----------------------------------------------------------------- inputs
\* The slugs a payload names.
SlugInputs == {"gpt-x", "llama-3", ""}
\* The descriptions of a payload's unknown systems.
DescriptionInputs == {"", "A chatbot on a website", "An app"}
\* One flaw description below the minimum length and one above it.
FlawDescriptionInputs == {"Too short", "Gave unsafe medical advice"}
\* One accepted severity label and one that is not.
SeverityInputs == {"Critical", "Severe"}

\* A list argument that is left out, or given.
ListArguments(lists) == {NoneVal} \cup {Some(v) : v \in lists}

\* The lists of unknown-system records: each description is empty or, by the
\* record's position, one of the two others, so that neighbours differ.
UnknownLists ==
    {u \in SeqsUpTo([description : DescriptionInputs], MaxUnknown) :
        \A i \in 1..Len(u) :
            u[i].description \in
                {"", IF i % 2 = 1 THEN "A chatbot on a website" ELSE "An app"}}

\* The keyword arguments of RawAIFlawReport(**raw_form_data).
MakePayload(known, unknown, flaw_description, flaw_severity) ==
    (IF known.some THEN [ai_systems |-> known.val] ELSE EmptyDict)
    @@ (IF unknown.some THEN [ai_systems_unknown |-> unknown.val] ELSE EmptyDict)
    @@ [flaw_description |-> flaw_description, flaw_severity |-> flaw_severity]

Payloads ==
    {MakePayload(k, u, d, s) :
        k \in ListArguments(SeqsUpTo(SlugInputs, MaxKnown)),
        u \in ListArguments(UnknownLists),
        d \in FlawDescriptionInputs,
        s \in SeverityInputs}

OrgAcmeId == "https://aifr.org/orgs/acme"

\* An organizations entry.
OrgAcme ==
    ("@id" :> OrgAcmeId) @@ ("@type" :> "Organization")
    @@ [name |-> "Acme AI",
        _aifr_internal |-> [slug |-> "acme", displayName |-> "Acme"]]

\* A systems entry with every field, whose publisher is OrgAcme.
SysGptX ==
    ("@id" :> "https://aifr.org/systems/gpt-x") @@ ("@type" :> "SoftwareApplication")
    @@ [name |-> "GPT-X", version |-> "1.0",
        publisher |-> ("@id" :> OrgAcmeId),
        _aifr_internal |-> [slug |-> "gpt-x", displayName |-> "GPT X (Acme)"],
        _note |-> "reviewed"]

\* A systems entry without version and displayName, whose publisher is in no
\* organizations file of the model.
SysLlama ==
    ("@id" :> "https://aifr.org/systems/llama-3")
    @@ [name |-> "Llama 3",
        publisher |-> ("@id" :> "https://aifr.org/orgs/missing"),
        _aifr_internal |-> [slug |-> "llama-3"]]

\* A systems entry with internal fields only.
SysInternalOnly ==
    [_aifr_internal |-> [slug |-> "llama-3", displayName |-> "Llama 3"]]

\* A systems entry whose slug is the empty string.
SysEmptySlug ==
    ("@id" :> "https://aifr.org/systems/draft")
    @@ [name |-> "Draft", version |-> "0.1", _aifr_internal |-> [slug |-> ""]]

SystemEntries == {SysGptX, SysLlama, SysInternalOnly, SysEmptySlug}

\* The slugs find_system_by_slug resolves in a graph: those an entry holds as
\* its internal slug, the empty string included (the scan compares with ==;
\* it does not read slug_map, which registers only non-empty slugs).
CarriedSlugs(graph) ==
    {graph[i]._aifr_internal.slug :
        i \in {j \in 1..Len(graph) :
                  "slug" \in DOMAIN Get(graph[j], "_aifr_internal", EmptyDict)}}

\* No entry is listed twice; two entries may carry the same slug.
DistinctEntries(graph) ==
    \A i, j \in 1..Len(graph) : i # j => graph[i] # graph[j]

SystemGraphs == {g \in SeqsUpTo(SystemEntries, MaxSystems) : DistinctEntries(g)}
OrganizationGraphs == {<< >>, <<OrgAcme>>}

\* The contents of ai-systems.jsonld and organizations.jsonld.
KnowledgeBases == [systems : SystemGraphs, organizations : OrganizationGraphs]

\* ------------------------------------------------------------------ state
VARIABLES
    payload,        \* the form data main() reads from its file
    hashes,         \* the [text, value] pairs hash() has given in this process
    clock,          \* the clock's reading, and the number of earlier runs
    phase,          \* where main() is
    raw,            \* what RawAIFlawReport(**payload) gave
    kbLoaded,       \* the files the latest KnowledgeBase() loaded
    kbAfter,        \* the loaded data after the latest call's lookups
    processed,      \* what process_raw_report gave
    doc,            \* what serialize_to_jsonld gave
    prevId          \* the report id an earlier run gave to the same payload

vars == <<payload, hashes, clock, phase, raw, kbLoaded, kbAfter, processed, doc, prevId>>

NotCalled == Raised("not called")
NotLoaded == [systems |-> << >>, organizations |-> << >>]

Init ==
    /\ payload \in Payloads
    /\ hashes = {}
    /\ clock = 0
    /\ phase = "start"
    /\ raw = NotCalled
    /\ kbLoaded = NotLoaded
    /\ kbAfter = NotLoaded
    /\ processed = NotCalled
    /\ doc = NotCalled
    /\ prevId = NoneVal

\* main(): validated_form_data = RawAIFlawReport(**raw_form_data); a rejected
\* payload ends the run.
Validate ==
    /\ phase = "start"
    /\ raw' = RawAIFlawReport(payload)
    /\ phase' = IF raw'.ok THEN "validated" ELSE "rejected"
    /\ UNCHANGED <<payload, hashes, clock, kbLoaded, kbAfter, processed, doc, prevId>>

\* What the lookups of a call leave in the loaded data: find_system_by_slug
\* reads it, and get_system_jsonld assigns only to the copy it made.
KbAfterLookups(loaded) == loaded

\* main(): processed_report = process_raw_report(validated_form_data).  Its
\* KnowledgeBase() loads the files as they are at the call.
Process ==
    /\ phase = "validated"
    /\ \E files \in KnowledgeBases :
       \E hash_value \in hash(hashes, model_dump_json(raw.val)) :
          /\ kbLoaded' = files
          /\ kbAfter' = KbAfterLookups(files)
          /\ hashes' = hashes \cup {[text |-> model_dump_json(raw.val),
                                     value |-> hash_value]}
          /\ processed' = process_raw_report(raw.val, files, hash_value, clock)
    /\ phase' = IF processed'.ok THEN "processed" ELSE "process_failed"
    /\ UNCHANGED <<payload, clock, raw, doc, prevId>>

\* main(): jsonld_report = serialize_to_jsonld(processed_report).  Its
\* KnowledgeBase() loads the files again, as they are at this call.
Serialize ==
    /\ phase = "processed"
    /\ \E files \in KnowledgeBases :
          /\ kbLoaded' = files
          /\ kbAfter' = KbAfterLookups(files)
          /\ doc' = serialize_to_jsonld(processed.val, files)
    /\ phase' = IF doc'.ok THEN "serialized" ELSE "serialize_failed"
    /\ UNCHANGED <<payload, hashes, clock, raw, processed, prevId>>

\* Most runs on the same form data after the first.
MaxRuns == 1

\* The pipeline is run again on the same form data, in the same process or in
\* a new one, whose hashes are yet to be drawn.
RunAgain ==
    /\ phase \in {"rejected", "process_failed", "serialized", "serialize_failed"}
    /\ clock < MaxRuns
    /\ clock' = clock + 1
    /\ \/ hashes' = hashes
       \/ hashes' = {}
    /\ prevId' = IF processed.ok THEN Some(processed.val.report_id) ELSE prevId
    /\ phase' = "start"
    /\ raw' = NotCalled
    /\ kbLoaded' = NotLoaded
    /\ kbAfter' = NotLoaded
    /\ processed' = NotCalled
    /\ doc' = NotCalled
    /\ UNCHANGED payload

Next == Validate \/ Process \/ Serialize

Spec == Init /\ [][Next]_vars

NextRuns == Validate \/ Process \/ Serialize \/ RunAgain

SpecRuns == Init /\ [][NextRuns]_vars

\* ----------------------------------------------------------------- claims
AfterProcess == phase \in {"processed", "process_failed", "serialized", "serialize_failed"}
AfterSerialize == phase \in {"serialized", "serialize_failed"}

\* process_raw_report was the latest call: kbLoaded is what it loaded.
JustProcessed == phase \in {"processed", "process_failed"}

\* The positions of slugs that find_system_by_slug resolves.
ResolvedAt(slugs, kb) ==
    {i \in 1..Len(slugs) : slugs[i] \in CarriedSlugs(kb.systems)}

\* The first entry of the graph that carries slug.
EntryCarrying(graph, slug) ==
    graph[CHOOSE i \in 1..Len(graph) :
            /\ "slug" \in DOMAIN Get(graph[i], "_aifr_internal", EmptyDict)
            /\ graph[i]._aifr_internal.slug = slug
            /\ \A j \in 1..(i - 1) :
                  "slug" \in DOMAIN Get(graph[j], "_aifr_internal", EmptyDict)
                      => graph[j]._aifr_internal.slug # slug]

\* C1: process_raw_report never returns a report whose ai_systems is empty;
\* when no known slug resolves and there is no unknown system, it raises.
C1_NeverEmptyReport ==
    AfterProcess =>
        /\ processed.ok => Len(processed.val.ai_systems) >= 1
        /\ ( /\ JustProcessed
             /\ ResolvedAt(raw.val.ai_systems, kbLoaded) = {}
             /\ raw.val.ai_systems_unknown = << >> )
           => (~processed.ok /\ phase = "process_failed")

\* A named slug that the knowledge base does not carry, no unknown system, and
\* the call raised.
C1_Witness ==
    /\ phase = "process_failed"
    /\ Len(raw.val.ai_systems) >= 1
    /\ ResolvedAt(raw.val.ai_systems, kbLoaded) = {}
    /\ kbLoaded.systems # << >>

\* C2: every raw report that construction accepts names at least one system,
\* known or unknown.
C2_AcceptedRawHasSystem ==
    raw.ok => Len(raw.val.ai_systems) + Len(raw.val.ai_systems_unknown) >= 1

\* The payload gives ai_systems as the empty list, at least one unknown system
\* with a description, a long enough flaw description and an accepted severity.
C3_Payload ==
    /\ "ai_systems" \in DOMAIN payload
    /\ payload.ai_systems = << >>
    /\ "ai_systems_unknown" \in DOMAIN payload
    /\ Len(payload.ai_systems_unknown) >= 1
    /\ \A i \in 1..Len(payload.ai_systems_unknown) :
          Len(payload.ai_systems_unknown[i].description) >= 1
    /\ Len(payload.flaw_description) >= MinFlawDescription
    /\ payload.flaw_severity \in valid_severities

\* C3: such a payload passes validation, and process_raw_report returns one
\* Unknown system per unknown-system record and no Known system.
C3_EmptyKnownListAccepted ==
    (C3_Payload /\ phase # "start") =>
        /\ raw.ok
        /\ AfterProcess =>
              /\ processed.ok
              /\ Len(processed.val.ai_systems) = Len(payload.ai_systems_unknown)
              /\ \A i \in 1..Len(processed.val.ai_systems) :
                    processed.val.ai_systems[i].system_type = "unknown"

\* The raw report names at least one system.
RawNamesSystem ==
    raw.ok /\ Len(raw.val.ai_systems) + Len(raw.val.ai_systems_unknown) >= 1

\* Every known slug of the raw report is carried by a systems entry of the
\* loaded files.
SlugsCarried(loaded) ==
    \A i \in 1..Len(raw.val.ai_systems) :
        raw.val.ai_systems[i] \in CarriedSlugs(loaded.systems)

\* process_raw_report resolved every known slug of the raw report: the report
\* holds one Known system per slug.
SlugsWereCarried ==
    /\ processed.ok
    /\ Cardinality({i \in 1..Len(processed.val.ai_systems) :
                        processed.val.ai_systems[i].system_type = "known"})
          = Len(raw.val.ai_systems)

\* C4: for a raw report whose known slugs are all carried by a systems entry at
\* both calls, process_raw_report and then serialize_to_jsonld raise nothing.
C4_CarriedSlugsNeverRaise ==
    /\ (JustProcessed /\ RawNamesSystem /\ SlugsCarried(kbLoaded)) => processed.ok
    /\ (AfterSerialize /\ RawNamesSystem /\ SlugsWereCarried
            /\ SlugsCarried(kbLoaded)) => doc.ok

\* The positions of the report's Known systems whose slug no systems entry of
\* the loaded files carries.
DriftedAt(loaded) ==
    {i \in 1..Len(processed.val.ai_systems) :
        /\ processed.val.ai_systems[i].system_type = "known"
        /\ processed.val.ai_systems[i].slug \notin CarriedSlugs(loaded.systems)}

\* C5: when the report holds a Known system whose slug no systems entry
\* carries as serialize_to_jsonld runs, the call raises and gives no document.
C5_DriftDetected ==
    (AfterSerialize /\ DriftedAt(kbLoaded) # {}) =>
        (~doc.ok /\ phase = "serialize_failed")

\* The files loaded at serialization no longer carry the slug of the report's
\* second Known system, which was resolved at processing; the systems before
\* and after it still resolve or are Unknown.
C5_Witness ==
    /\ phase = "serialize_failed"
    /\ Len(processed.val.ai_systems) >= 3
    /\ DriftedAt(kbLoaded) = {2}

\* C6: a run of process_raw_report gives the report id that an earlier run
\* gave to the same content.
C6_SameContentSameId ==
    (AfterProcess /\ processed.ok /\ prevId.some) =>
        processed.val.report_id = prevId.val

\* The k-th smallest element of a set of positions.
KthOf(S, k) == CHOOSE i \in S : Cardinality({j \in S : j <= i}) = k

\* The positions of the report's systems of a type.
SystemsOfType(type) ==
    {i \in 1..Len(processed.val.ai_systems) :
        processed.val.ai_systems[i].system_type = type}

\* C7: the systems of the processed report are the Known systems of the
\* resolved slugs, in input order with duplicates kept, then one Unknown system
\* per unknown-system record with id .../<report_id>/unknown-system-<i>; the
\* aiSystem array has one projection per system, in the same order.
C7_SystemsAreReferenceSequence ==
    /\ (phase = "processed") =>
        LET slugs == raw.val.ai_systems
            unknowns == raw.val.ai_systems_unknown
            resolved == ResolvedAt(slugs, kbLoaded)
            n == Cardinality(resolved)
            systems == processed.val.ai_systems
        IN  /\ Len(systems) = n + Len(unknowns)
            /\ \A k \in 1..n :
                  LET slug == slugs[KthOf(resolved, k)]
                      entry == EntryCarrying(kbLoaded.systems, slug)
                  IN  /\ systems[k].system_type = "known"
                      /\ systems[k].slug = slug
                      /\ systems[k].id = Get(entry, "@id", "")
                      /\ systems[k].name = Get(entry, "name", "")
            /\ \A i \in 1..Len(unknowns) :
                  /\ systems[n + i].system_type = "unknown"
                  /\ systems[n + i].description = Some(unknowns[i].description)
                  /\ systems[n + i].id =
                        "https://aifr.org/reports/" \o processed.val.report_id
                        \o "/unknown-system-" \o ToString(i)
    /\ (phase = "serialized") =>
        LET systems == processed.val.ai_systems
        IN  /\ Len(doc.val.aiSystem) = Len(systems)
            /\ \A k \in SystemsOfType("known") :
                  LET entry == EntryCarrying(kbLoaded.systems, systems[k].slug)
                  IN  \A f \in DOMAIN entry :
                         (FirstChar[f] # "_" /\ f # "publisher") =>
                             /\ f \in DOMAIN doc.val.aiSystem[k]
                             /\ doc.val.aiSystem[k][f] = entry[f]
            /\ \A k \in SystemsOfType("unknown") :
                  /\ doc.val.aiSystem[k]["@id"] = systems[k].id
                  /\ Some(doc.val.aiSystem[k].description) = systems[k].description

\* A document of a report with an unresolved slug before a resolved one and two
\* unknown systems with different descriptions.
C7_Witness ==
    /\ phase = "serialized"
    /\ Len(raw.val.ai_systems) = 2
    /\ raw.val.ai_systems[1] # raw.val.ai_systems[2]
    /\ SystemsOfType("known") = {1}
    /\ processed.val.ai_systems[1].slug = raw.val.ai_systems[2]
    /\ Len(raw.val.ai_systems_unknown) = 2
    /\ raw.val.ai_systems_unknown[1] # raw.val.ai_systems_unknown[2]
    /\ Len(doc.val.aiSystem) = 3

\* What get_system_jsonld gives for a slug that a systems entry of kb carries
\* is a copy of the entry without its internal fields, the publisher aside.
LookupIsClean(loaded, slug) ==
    LET entry == EntryCarrying(loaded.systems, slug)
        result == get_system_jsonld(loaded, slug)
    IN  /\ result.some
        /\ \A f \in DOMAIN result.val : FirstChar[f] # "_" /\ f \in DOMAIN entry
        /\ \A f \in DOMAIN entry :
              (FirstChar[f] # "_" /\ f # "publisher") =>
                  (f \in DOMAIN result.val /\ result.val[f] = entry[f])

\* The entry that carries slug references a publisher by @id.
ReferencesPublisher(kb, slug) ==
    LET entry == EntryCarrying(kb.systems, slug)
    IN  "publisher" \in DOMAIN entry /\ "@id" \in DOMAIN entry.publisher

\* The @id of that reference.
ReferencedId(kb, slug) == EntryCarrying(kb.systems, slug).publisher["@id"]

\* Some organizations entry of kb has that id.
OrganizationKnown(kb, id) ==
    \E i \in 1..Len(kb.organizations) : kb.organizations[i]["@id"] = id

\* The publisher of the lookup's result is the record of an organizations entry
\* with the referenced id, without its internal fields.
PublisherEmbedded(kb, slug) ==
    LET publisher == get_system_jsonld(kb, slug).val.publisher
    IN  \E i \in 1..Len(kb.organizations) :
            /\ kb.organizations[i]["@id"] = ReferencedId(kb, slug)
            /\ \A f \in DOMAIN publisher : FirstChar[f] # "_"
            /\ \A f \in DOMAIN kb.organizations[i] :
                  FirstChar[f] # "_" =>
                      /\ f \in DOMAIN publisher
                      /\ publisher[f] = kb.organizations[i][f]

\* The publisher of the lookup's result is the entry's bare reference.
PublisherLeft(kb, slug) ==
    get_system_jsonld(kb, slug).val.publisher
        = EntryCarrying(kb.systems, slug).publisher

\* C8 as stated: the publisher of every entry that references one by @id is
\* embedded in full.
C8_PublisherAlwaysEmbedded ==
    AfterSerialize =>
        /\ kbAfter = kbLoaded
        /\ \A slug \in CarriedSlugs(kbLoaded.systems) :
              /\ LookupIsClean(kbLoaded, slug)
              /\ ReferencesPublisher(kbLoaded, slug) =>
                    PublisherEmbedded(kbLoaded, slug)

\* C8, amended: the publisher is embedded in full when an organizations entry
\* carries the referenced @id, and is left as the bare reference otherwise; the
\* result has no internal field and the loaded data are unchanged.
C8_PublisherEmbeddedWhenKnown ==
    AfterSerialize =>
        /\ kbAfter = kbLoaded
        /\ \A slug \in CarriedSlugs(kbLoaded.systems) :
              /\ LookupIsClean(kbLoaded, slug)
              /\ ReferencesPublisher(kbLoaded, slug) =>
                    IF /\ ReferencedId(kbLoaded, slug) # ""
                       /\ OrganizationKnown(kbLoaded, ReferencedId(kbLoaded, slug))
                    THEN PublisherEmbedded(kbLoaded, slug)
                    ELSE PublisherLeft(kbLoaded, slug)

\* A document whose first system is the entry with an internal note, with the
\* record of its publisher embedded.
C8_Witness ==
    /\ phase = "serialized"
    /\ processed.val.ai_systems[1].slug = "gpt-x"
    /\ "_note" \in DOMAIN EntryCarrying(kbLoaded.systems, "gpt-x")
    /\ "name" \in DOMAIN doc.val.aiSystem[1].publisher
    /\ doc.val.aiSystem[1].publisher.name = "Acme AI"

\* C9: when the cross-field check executes, the severity check and the
\* minimum-length check of the flaw description have both executed.
C9_CrossFieldCheckAfterFieldChecks ==
    (phase # "start") =>
        \A i \in 1..Len(raw.checks) :
            raw.checks[i] = "at_least_one_system" =>
                /\ \E j \in 1..(i - 1) : raw.checks[j] = "severity_enum"
                /\ \E j \in 1..(i - 1) : raw.checks[j] = "flaw_description_min_length"

\* C10: every system of a returned report has either a non-empty slug and no
\* description, or a non-empty description, an empty slug and the display name
\* "Unknown System".
C10_SlugXorDescription ==
    (AfterProcess /\ processed.ok) =>
        \A i \in 1..Len(processed.val.ai_systems) :
            LET system == processed.val.ai_systems[i]
                isKnown == system.slug # "" /\ ~system.description.some
                isUnknown == /\ system.description.some
                             /\ system.description.val # ""
                             /\ system.slug = ""
                             /\ system.display_name = "Unknown System"
            IN  (isKnown \/ isUnknown) /\ ~(isKnown /\ isUnknown)

====
